---------------------------- MODULE Spec2Model ----------------------------
(***************************************************************************)
(* maplibre-precipitation: the PrecipitationLayer custom layer             *)
(* (src/js/precipitation-layer.js), its configuration (src/js/config.js)   *)
(* and the fragment shader that evaluates the precipitation field          *)
(* (src/unnamed/part_000, the shaders module).                             *)
(*                                                                         *)
(* Numbers.  GLSL and JavaScript floats are modelled in fixed point:       *)
(*   - dimensionless quantities (point values, falloff, weights, mercator  *)
(*     unit coordinates, gradient stops, NDC coordinates) are integers in  *)
(*     units of 1/ONE;                                                     *)
(*   - angles in degrees are integers in units of 1/100 degree (cdeg),     *)
(*     angles in radians are integers in units of 1/ONE radian;            *)
(*   - distances and influenceRadius are whole kilometres;                 *)
(*   - falloffSteepness is in tenths;                                      *)
(*   - colours are the 0..255 channel values of the gradient table.        *)
(***************************************************************************)
EXTENDS Integers, Sequences, FiniteSets, TLC

VARIABLES
    points,          \* this.points
    config,          \* this.config
    program,         \* this.program (0 is null)
    positionBuffer,  \* this.positionBuffer (0 is null)
    locations,       \* this.locations: the program whose locations are cached (0: {})
    map,             \* this.map is set
    pointsArray,     \* this.pointsArray   (cached Float32Array, or undefined)
    gradientColors,  \* this.gradientColors
    gradientStops,   \* this.gradientStops
    COLOR_GRADIENT,  \* the gradient table of config.js
    gl,              \* the WebGL context: live objects
    lastCall,        \* the most recent call on the layer and its outcome
    addStatus,       \* outcome of the most recent onAdd: "none", "ok", "failed"
    frag,            \* one fragment-shader invocation: its input and output
    geo,             \* one evaluation of the shader's geographic helpers
    committed        \* history: the point list accepted last, and by which call

layerVars == <<points, config, program, positionBuffer, locations, map,
               pointsArray, gradientColors, gradientStops, COLOR_GRADIENT,
               gl, lastCall, addStatus>>
vars == <<points, config, program, positionBuffer, locations, map,
          pointsArray, gradientColors, gradientStops, COLOR_GRADIENT,
          gl, lastCall, addStatus, frag, geo, committed>>

---------------------------------------------------------------------------
(* Fixed-point scale and the bounds of the model.                          *)

ONE == 10 * 1000

\* how many times the layer is added to a map in one behaviour
MaxOnAdd == 1
\* the longest point list a fragment evaluation is given
MaxFragPoints == 2

\* precipitation-layer.js:55 and the size of u_points
MAX_POINTS == 250

Min(a, b) == IF a < b THEN a ELSE b
Max(a, b) == IF a > b THEN a ELSE b
Abs(a) == IF a < 0 THEN -a ELSE a
\* division rounding toward zero, as a float quotient is symmetric in sign
TDiv(a, b) == IF (a < 0) = (b < 0) THEN Abs(a) \div Abs(b) ELSE -(Abs(a) \div Abs(b))
\* floor of a fixed-point number (units of 1/ONE), as an integer
Floor(x) == x \div ONE

---------------------------------------------------------------------------
(* config.js                                                               *)

DEFAULT_CONFIG ==
    [influenceRadius |-> 25, falloffSteepness |-> 18, resolution |-> 512,
     minValue |-> 0, maxValue |-> ONE]

ConfigFields == {"influenceRadius", "falloffSteepness", "resolution", "minValue", "maxValue"}

\* the reference gradient: five stops, 20% wide bands
DefaultGradient ==
    << [stop |-> 0,    color |-> <<135, 206, 250>>],
       [stop |-> 2000, color |-> <<100, 180, 230>>],
       [stop |-> 4000, color |-> <<70, 130, 180>>],
       [stop |-> 6000, color |-> <<30, 100, 200>>],
       [stop |-> 8000, color |-> <<0, 60, 150>>] >>

\* the object spread { ...a, ...b }
Spread(a, b) ==
    [f \in (DOMAIN a) \cup (DOMAIN b) |-> IF f \in DOMAIN b THEN b[f] ELSE a[f]]

---------------------------------------------------------------------------
(* Values of the layer's fields.                                           *)

Null == 0
Undefined == [def |-> FALSE, data |-> <<>>]
Float32Array(s) == [def |-> TRUE, data |-> s]
NoArg == <<>>

Call(op, arg, threw) ==
    [op |-> op, arg |-> arg, threw |-> threw, drew |-> FALSE, uploads |-> <<>>,
     compiled |-> <<>>, linked |-> <<>>, createdShaders |-> {}, createdPrograms |-> {}]

---------------------------------------------------------------------------
(* Inputs of the layer's operations.                                       *)

SamplePoint(lng, lat, value) == [lng |-> lng, lat |-> lat, value |-> value]

\* a list of n points, the i-th at longitude 5 + i/100 degrees
PointList(n, value) == [i \in 1..n |-> SamplePoint(500 + i, 6000, value)]

PointLists ==
    { << SamplePoint(1000, 6000, 9000), SamplePoint(1100, 6000, 0) >>,
      PointList(MAX_POINTS, 5000),
      PointList(MAX_POINTS + 1, 7000) }

\* the argument of updateConfig, and the constructor's config
NewConfigs ==
    { <<>>,
      [influenceRadius |-> 1500],
      [falloffSteepness |-> 30, resolution |-> 256],
      DEFAULT_CONFIG }

\* what map.getCenter(), map.getZoom() and gl.canvas give a render
Camera(lng, lat, zoom, w, h) == [center |-> <<lng, lat>>, zoom |-> zoom, viewport |-> <<w, h>>]

LayerCameras == { Camera(1025, 5975, 7, 1024, 768) }

---------------------------------------------------------------------------
(* precipitation-layer.js                                                  *)

\* pointsArray[i*3], [i*3+1], [i*3+2] = point.lng, point.lat, point.value
PointsArrayOf(pts) ==
    [i \in 1..(3 * Len(pts)) |->
        LET p == pts[((i - 1) \div 3) + 1]
            k == (i - 1) % 3
        IN  IF k = 0 THEN p.lng ELSE IF k = 1 THEN p.lat ELSE p.value]

GradientColorsOf(table) ==
    [i \in 1..(3 * Len(table)) |-> table[((i - 1) \div 3) + 1].color[((i - 1) % 3) + 1]]

GradientStopsOf(table) == [i \in 1..Len(table) |-> table[i].stop]

\* the validation of prepareUniformData: it throws for these lists
TooManyPoints(pts) == Len(pts) > MAX_POINTS

\* a preparation that keeps arrays it has already cached
PrepareUniformData_KeepCache(pts, pa, gc, gs, table) ==
    IF TooManyPoints(pts) \/ pa.def
    THEN [threw |-> TooManyPoints(pts), pointsArray |-> pa, gradientColors |-> gc,
          gradientStops |-> gs]
    ELSE [threw |-> FALSE,
          pointsArray |-> Float32Array(PointsArrayOf(pts)),
          gradientColors |-> Float32Array(GradientColorsOf(table)),
          gradientStops |-> Float32Array(GradientStopsOf(table))]

\* prepareUniformData(): the cached arrays after the call, and whether it threw
PrepareUniformData(pts, pa, gc, gs, table) ==
    IF TooManyPoints(pts)
    THEN [threw |-> TRUE, pointsArray |-> pa, gradientColors |-> gc, gradientStops |-> gs]
    ELSE [threw |-> FALSE,
          pointsArray |-> Float32Array(PointsArrayOf(pts)),
          gradientColors |-> Float32Array(GradientColorsOf(table)),
          gradientStops |-> Float32Array(GradientStopsOf(table))]

\* createShader(gl, type, source): a failed compile deletes the shader and returns null
CreateShader(g, ok) ==
    LET id == g.nextId + 1
    IN  [gl |-> [g EXCEPT !.nextId = id,
                          !.shaders = IF ok THEN @ \cup {id} ELSE @],
         id |-> id,
         shader |-> IF ok THEN id ELSE Null]

\* createProgram(gl, vs, fs): a failed link deletes the program and returns null
CreateProgram(g, ok) ==
    LET id == g.nextId + 1
    IN  [gl |-> [g EXCEPT !.nextId = id,
                          !.programs = IF ok THEN @ \cup {id} ELSE @],
         id |-> id,
         program |-> IF ok THEN id ELSE Null]

DeleteShader(g, s) == [g EXCEPT !.shaders = @ \ {s}]

CreateBuffer(g) ==
    LET id == g.nextId + 1
    IN  [gl |-> [g EXCEPT !.nextId = id, !.buffers = @ \cup {id}], buffer |-> id]

NoFrag == [done |-> FALSE]
\* the list pts was handed over by the call named by, and none was rejected since
Committed(pts, by) == [points |-> pts, by |-> by, rejected |-> FALSE]
NoGeo == [done |-> FALSE]

\* constructor(id, points, config = {}): no validation, no cached arrays yet
Constructor(pts, cfg) ==
    /\ points = pts
    /\ config = Spread(DEFAULT_CONFIG, cfg)
    /\ program = Null
    /\ positionBuffer = Null
    /\ locations = Null
    /\ map = FALSE
    /\ pointsArray = Undefined
    /\ gradientColors = Undefined
    /\ gradientStops = Undefined
    /\ committed = Committed(pts, "constructor")

Init ==
    /\ \E pts \in PointLists, cfg \in NewConfigs : Constructor(pts, cfg)
    /\ COLOR_GRADIENT = DefaultGradient
    /\ gl = [nextId |-> 0, shaders |-> {}, programs |-> {}, buffers |-> {}]
    /\ lastCall = Call("constructor", NoArg, FALSE)
    /\ addStatus = "none"
    /\ frag = NoFrag
    /\ geo = NoGeo

\* onAdd(map, gl); vsOk, fsOk, linkOk are the COMPILE_STATUS of the two shaders
\* and the LINK_STATUS of the program
onAdd(vsOk, fsOk, linkOk) ==
    /\ gl.nextId + 4 <= 4 * MaxOnAdd
    /\ map' = TRUE
    /\ LET vs == CreateShader(gl, vsOk)
           fs == CreateShader(vs.gl, fsOk)
           pr == CreateProgram(fs.gl, linkOk)
           cleaned == DeleteShader(DeleteShader(pr.gl, vs.shader), fs.shader)
           buf == CreateBuffer(cleaned)
           prep == PrepareUniformData(points, pointsArray, gradientColors,
                                      gradientStops, COLOR_GRADIENT)
           call == [Call("onAdd", NoArg, TRUE) EXCEPT
                        !.compiled = <<vsOk, fsOk>>,
                        !.createdShaders = {vs.id, fs.id}]
       IN  IF vs.shader = Null \/ fs.shader = Null
           THEN \* throw new Error('Failed to compile shaders ...')
                /\ gl' = fs.gl
                /\ lastCall' = call
                /\ addStatus' = "failed"
                /\ UNCHANGED <<program, locations, positionBuffer, pointsArray,
                               gradientColors, gradientStops>>
           ELSE IF pr.program = Null
           THEN \* this.program = null; throw new Error('Failed to link ...')
                /\ gl' = pr.gl
                /\ program' = Null
                /\ lastCall' = [call EXCEPT !.linked = <<linkOk>>,
                                            !.createdPrograms = {pr.id}]
                /\ addStatus' = "failed"
                /\ UNCHANGED <<locations, positionBuffer, pointsArray,
                               gradientColors, gradientStops>>
           ELSE /\ gl' = buf.gl
                /\ program' = pr.program
                /\ locations' = pr.program
                /\ positionBuffer' = buf.buffer
                /\ pointsArray' = prep.pointsArray
                /\ gradientColors' = prep.gradientColors
                /\ gradientStops' = prep.gradientStops
                /\ lastCall' = [call EXCEPT !.threw = prep.threw,
                                            !.linked = <<linkOk>>,
                                            !.createdPrograms = {pr.id}]
                /\ addStatus' = IF prep.threw THEN "failed" ELSE "ok"
    /\ UNCHANGED <<points, config, COLOR_GRADIENT, frag, geo, committed>>

\* the draw of render(): gl.drawArrays is reached unless an earlier statement threw.
\* this.map.getCenter() throws on an undefined map; gl.uniform3fv and gl.uniform1fv
\* throw a TypeError on an undefined array argument.
RenderThrowsAtCamera(m) == ~m
RenderThrowsAtPoints(pa) == ~pa.def
RenderThrowsAtGradient(gc, gs) == ~gc.def \/ ~gs.def

\* the uniform values render passes before each statement that can throw
CameraUploads(cam, cfg) ==
    [u_center |-> cam.center, u_zoom |-> cam.zoom, u_viewportSize |-> cam.viewport,
     u_influenceRadius |-> cfg.influenceRadius,
     u_falloffSteepness |-> cfg.falloffSteepness]

\* gl.uniform1i(this.locations.uNumPoints, this.points.length)
NumPointsUploaded(pts, pa) == Len(pts)

PointUploads(pts, pa) == [u_points |-> pa.data, u_numPoints |-> NumPointsUploaded(pts, pa)]

GradientUploads(gc, gs) == [u_gradientColors |-> gc.data, u_gradientStops |-> gs.data]

\* render(gl, matrix) as a call: the uniform values it passes, whether it throws
\* and whether gl.drawArrays is reached
RenderCall(m, cam, cfg, pts, pa, gc, gs) ==
    LET u1 == IF RenderThrowsAtCamera(m) THEN <<>>
              ELSE CameraUploads(cam, cfg)
        u2 == IF RenderThrowsAtCamera(m) \/ RenderThrowsAtPoints(pa) THEN u1
              ELSE Spread(u1, PointUploads(pts, pa))
        threw == \/ RenderThrowsAtCamera(m)
                 \/ RenderThrowsAtPoints(pa)
                 \/ RenderThrowsAtGradient(gc, gs)
        u3 == IF threw THEN u2
              ELSE Spread(u2, GradientUploads(gc, gs))
    IN  [Call("render", NoArg, threw) EXCEPT !.drew = ~threw, !.uploads = u3]

\* render(gl, matrix)
render(cam) ==
    /\ lastCall' = RenderCall(map, cam, config, points, pointsArray, gradientColors,
                              gradientStops)
    /\ UNCHANGED <<points, config, program, positionBuffer, locations, map,
                   pointsArray, gradientColors, gradientStops, COLOR_GRADIENT,
                   gl, addStatus, frag, geo, committed>>

\* onRemove(gl): deletes the program and the buffer, keeps the fields
onRemove ==
    /\ gl' = [gl EXCEPT !.programs = @ \ {program}, !.buffers = @ \ {positionBuffer}]
    /\ lastCall' = Call("onRemove", NoArg, FALSE)
    /\ UNCHANGED <<points, config, program, positionBuffer, locations, map,
                   pointsArray, gradientColors, gradientStops, COLOR_GRADIENT,
                   addStatus, frag, geo, committed>>

\* a merge that starts again from the defaults
MergedConfig_FromDefaults(cfg, newConfig) == Spread(DEFAULT_CONFIG, newConfig)

\* this.config = { ...this.config, ...newConfig }
MergedConfig(cfg, newConfig) == Spread(cfg, newConfig)

\* updateConfig(newConfig)
updateConfig(newConfig) ==
    /\ config' = MergedConfig(config, newConfig)
    /\ lastCall' = Call("updateConfig", newConfig, FALSE)
    /\ UNCHANGED <<points, program, positionBuffer, locations, map,
                   pointsArray, gradientColors, gradientStops, COLOR_GRADIENT,
                   gl, addStatus, frag, geo, committed>>

\* updatePoints(newPoints): the assignment comes before the validation
updatePoints(newPoints) ==
    /\ points' = newPoints
    /\ LET prep == PrepareUniformData(newPoints, pointsArray, gradientColors,
                                      gradientStops, COLOR_GRADIENT)
       IN  /\ pointsArray' = prep.pointsArray
           /\ gradientColors' = prep.gradientColors
           /\ gradientStops' = prep.gradientStops
           /\ lastCall' = Call("updatePoints", Len(newPoints), prep.threw)
           /\ committed' = IF prep.threw THEN [committed EXCEPT !.rejected = TRUE]
                           ELSE Committed(newPoints, "updatePoints")
    /\ UNCHANGED <<config, program, positionBuffer, locations, map, COLOR_GRADIENT,
                   gl, addStatus, frag, geo>>

Next ==
    \/ \E vsOk, fsOk, linkOk \in BOOLEAN : onAdd(vsOk, fsOk, linkOk)
    \/ \E cam \in LayerCameras : render(cam)
    \/ onRemove
    \/ \E newConfig \in NewConfigs : updateConfig(newConfig)
    \/ \E newPoints \in PointLists : updatePoints(newPoints)

Spec == Init /\ [][Next]_vars

---------------------------------------------------------------------------
(* The fragment shader (fragmentShaderSource), in fixed point.             *)

\* const float PI = 3.14159265359, in 1/ONE radian
PI == 31416
\* const float EARTH_RADIUS = 6371.0 (km)
EARTH_RADIUS == 6371
\* const float WORLD_SIZE = 512.0
WORLD_SIZE == 512
\* the literal 3.14159 of the falloff, in 1/ONE
FALLOFF_PI == 31416
\* float alpha = 0.8, in 1/ONE
ALPHA == 8000

Mul(x, y) == TDiv(x * y, ONE)

\* sin of 0..90 degrees in steps of one degree, in 1/ONE
SinTable ==
    << 0, 175, 349, 523, 698, 872, 1045, 1219, 1392, 1564,
       1736, 1908, 2079, 2250, 2419, 2588, 2756, 2924, 3090, 3256,
       3420, 3584, 3746, 3907, 4067, 4226, 4384, 4540, 4695, 4848,
       5000, 5150, 5299, 5446, 5592, 5736, 5878, 6018, 6157, 6293,
       6428, 6561, 6691, 6820, 6947, 7071, 7193, 7314, 7431, 7547,
       7660, 7771, 7880, 7986, 8090, 8192, 8290, 8387, 8480, 8572,
       8660, 8746, 8829, 8910, 8988, 9063, 9135, 9205, 9272, 9336,
       9397, 9455, 9511, 9563, 9613, 9659, 9703, 9744, 9781, 9816,
       9848, 9877, 9903, 9925, 9945, 9962, 9976, 9986, 9994, 9998,
       10000 >>

\* sin of c/100 degrees, 0 <= c <= 9000, interpolated in the table
SinQuadrant(c) ==
    LET i == c \div 100
        f == c % 100
    IN  IF f = 0 THEN SinTable[i + 1]
        ELSE SinTable[i + 1] + ((SinTable[i + 2] - SinTable[i + 1]) * f) \div 100

\* sin of c/100 degrees, any c; an odd function
SinCdeg(c) ==
    LET m == Abs(c) % 36000
        v == IF m <= 9000 THEN SinQuadrant(m)
             ELSE IF m <= 18000 THEN SinQuadrant(18000 - m)
             ELSE IF m <= 27000 THEN -SinQuadrant(m - 18000)
             ELSE -SinQuadrant(36000 - m)
    IN  IF c < 0 THEN -v ELSE v

\* radians (1/ONE) to 1/100 degree, reduced to one turn
RadToCdeg(x) ==
    LET r == Abs(x) % (2 * PI)
        c == (r * 18000) \div PI
    IN  IF x < 0 THEN -c ELSE c

sin(x) == SinCdeg(RadToCdeg(x))
cos(x) == SinCdeg(9000 - Abs(RadToCdeg(x)))

\* the largest r with r * r <= n
RECURSIVE SqrtSearch(_, _, _)
SqrtSearch(n, lo, hi) ==
    IF lo >= hi THEN lo
    ELSE LET mid == (lo + hi + 1) \div 2
         IN  IF mid * mid <= n THEN SqrtSearch(n, mid, hi)
             ELSE SqrtSearch(n, lo, mid - 1)

\* sqrt of x in 1/ONE, 0 <= x <= ONE
sqrt(x) == SqrtSearch(x * ONE, 0, ONE)

\* the largest angle c (1/100 degree) in lo..hi with tan(c) <= y / x
RECURSIVE AtanSearch(_, _, _, _)
AtanSearch(y, x, lo, hi) ==
    IF lo >= hi THEN lo
    ELSE LET mid == (lo + hi + 1) \div 2
         IN  IF SinCdeg(mid) * x <= SinCdeg(9000 - mid) * y
             THEN AtanSearch(y, x, mid, hi)
             ELSE AtanSearch(y, x, lo, mid - 1)

\* float degToRad(float deg): deg * PI / 180.0
degToRad(deg) == TDiv(deg * PI, 18000)

\* atan(y, x) for y >= 0 and x >= 0, in 1/ONE radian
atan(y, x) == degToRad(AtanSearch(y, x, 0, 9000))

RECURSIVE IntPow(_, _)
IntPow(x, n) == IF n = 0 THEN ONE ELSE Mul(x, IntPow(x, n - 1))

RECURSIVE Pow2(_)
Pow2(n) == IF n = 0 THEN 1 ELSE 2 * Pow2(n - 1)

\* pow(x, y) for x >= 0 and y > 0 in tenths: exact in the whole powers of x,
\* linear between two of them
pow(x, y) ==
    LET n == y \div 10
        f == y % 10
        lo == IntPow(x, n)
        hi == Mul(lo, x)
    IN  lo + TDiv((hi - lo) * f, 10)

clamp(x, lo, hi) == Min(Max(x, lo), hi)

\* float lngToMercatorX(float lng): (lng + 180.0) / 360.0
lngToMercatorX(lng) == ((lng + 18000) * ONE) \div 36000

\* float mercatorXToLng(float x): x * 360.0 - 180.0
mercatorXToLng(x) == (x * 36000) \div ONE - 18000

\* (PI - log(tan(PI/4 + latRad/2))) / (2 PI) at latitudes -85, -80, ..., 85 degrees
MercatorYTable ==
    << 9984, 8877, 8227, 7762, 7398, 7096, 6837, 6609, 6403, 6214,
       6039, 5874, 5718, 5567, 5422, 5279, 5139, 5000, 4861, 4721,
       4578, 4433, 4282, 4126, 3961, 3786, 3597, 3391, 3163, 2904,
       2602, 2238, 1773, 1123, 16 >>

\* float latToMercatorY(float lat), -85 <= lat <= 85 degrees, interpolated in the table
latToMercatorY(lat) ==
    LET c == clamp(lat, -8500, 8500) + 8500
        i == Min(c \div 500, 33)
        f == c - 500 * i
    IN  MercatorYTable[i + 1] + TDiv((MercatorYTable[i + 2] - MercatorYTable[i + 1]) * f, 500)

\* the table segment i (1..34) that holds mercator y
RECURSIVE MercatorSegment(_, _)
MercatorSegment(y, i) ==
    IF i >= 34 \/ y >= MercatorYTable[i + 1] THEN i ELSE MercatorSegment(y, i + 1)

\* float mercatorYToLat(float y): the inverse, interpolated in the same table
mercatorYToLat(y) ==
    LET yy == clamp(y, MercatorYTable[35], MercatorYTable[1])
        i == MercatorSegment(yy, 1)
        hi == MercatorYTable[i]
        lo == MercatorYTable[i + 1]
    IN  (-8500 + 500 * (i - 1)) + TDiv((hi - yy) * 500, hi - lo)

\* float normalizeLng(float lng): mod(lng + 180.0, 360.0) - 180.0
normalizeLng(lng) == ((lng + 18000) % 36000) - 18000

\* a difference that is corrected on one side only
lngDifference_NoAdd(lng1, lng2) ==
    LET diff == lng2 - lng1
    IN  IF diff > 18000 THEN diff - 36000 ELSE diff

\* float lngDifference(float lng1, float lng2)
lngDifference(lng1, lng2) ==
    LET diff == lng2 - lng1
        d1 == IF diff > 18000 THEN diff - 36000 ELSE diff
    IN  IF d1 < -18000 THEN d1 + 36000 ELSE d1

\* vec2 screenToGeo(vec2 screenPos, out float worldWrap)
screenToGeo(screenPos, u) ==
    LET centerMercX == lngToMercatorX(u.u_center[1])
        centerMercY == latToMercatorY(u.u_center[2])
        scale == WORLD_SIZE * Pow2(u.u_zoom)
        pixelX == TDiv(screenPos[1] * u.u_viewportSize[1], 2)
        pixelY == TDiv((-screenPos[2]) * u.u_viewportSize[2], 2)
        mercX == centerMercX + TDiv(pixelX, scale)
        mercY == centerMercY + TDiv(pixelY, scale)
        worldWrap == Floor(mercX)
        normalizedMercX == mercX - worldWrap * ONE
    IN  [worldWrap |-> worldWrap,
         pos |-> <<mercatorXToLng(normalizedMercX), mercatorYToLat(mercY)>>]

\* a distance that takes the cosine of the first latitude twice
haversineDistance_OneLatitude(point1, point2) ==
    LET lat1 == degToRad(point1[2])
        dLat == degToRad(point2[2] - point1[2])
        lngDiff == lngDifference(point1[1], point2[1])
        dLng == degToRad(lngDiff)
        sLat == sin(TDiv(dLat, 2))
        sLng == sin(TDiv(dLng, 2))
        a == Mul(sLat, sLat) + Mul(Mul(cos(lat1), cos(lat1)), Mul(sLng, sLng))
        c == 2 * atan(sqrt(a), sqrt(ONE - a))
    IN  TDiv(EARTH_RADIUS * c, ONE)

\* float haversineDistance(vec2 point1, vec2 point2), in km
haversineDistance(point1, point2) ==
    LET lat1 == degToRad(point1[2])
        lat2 == degToRad(point2[2])
        dLat == degToRad(point2[2] - point1[2])
        lngDiff == lngDifference(point1[1], point2[1])
        dLng == degToRad(lngDiff)
        sLat == sin(TDiv(dLat, 2))
        sLng == sin(TDiv(dLng, 2))
        a == Mul(sLat, sLat) + Mul(Mul(cos(lat1), cos(lat2)), Mul(sLng, sLng))
        c == 2 * atan(sqrt(a), sqrt(ONE - a))
    IN  TDiv(EARTH_RADIUS * c, ONE)

\* u_gradientColors[i], i from 0
GradientColor(u, i) ==
    << u.u_gradientColors[3 * i + 1], u.u_gradientColors[3 * i + 2],
       u.u_gradientColors[3 * i + 3] >>

\* vec3 getColor(float value): the thresholds are literals of the shader
getColor(value, u) ==
    LET v == clamp(value, 0, ONE)
    IN  IF v < 2000 THEN GradientColor(u, 0)
        ELSE IF v < 4000 THEN GradientColor(u, 1)
        ELSE IF v < 6000 THEN GradientColor(u, 2)
        ELSE IF v < 8000 THEN GradientColor(u, 3)
        ELSE GradientColor(u, 4)

\* u_points[i], i from 0; an element that was never set is zero
UPoint(u, i) ==
    IF 3 * i + 3 <= Len(u.u_points)
    THEN << u.u_points[3 * i + 1], u.u_points[3 * i + 2], u.u_points[3 * i + 3] >>
    ELSE << 0, 0, 0 >>

\* a test that lets the wrapped copies on the left through
OutsideMainWorld_RightOnly(worldWrap) == worldWrap > 0

\* if (worldWrap != 0.0)
OutsideMainWorld(worldWrap) == worldWrap # 0

\* a loop that skips no point
SkipPoint_Never(pointValue) == FALSE

\* if (pointValue == 0.0) continue
SkipPoint(pointValue) == pointValue = 0

\* a test against the diameter
WithinRadius_Diameter(distance, radius) == distance < 2 * radius

\* if (distance < u_influenceRadius)
WithinRadius(distance, radius) == distance < radius

\* a test that lets a zero value through
Transparent_Negative(interpolatedValue) == interpolatedValue < 0

\* if (interpolatedValue <= 0.0)
Transparent(interpolatedValue) == interpolatedValue <= 0

\* float falloff = 0.5 + 0.5 * cos(pow(distance / u_influenceRadius, steepness) * 3.14159)
Falloff(distance, u) ==
    LET normalizedDist == TDiv(distance * ONE, u.u_influenceRadius)
        shaped == pow(normalizedDist, u.u_falloffSteepness)
    IN  (ONE \div 2) + TDiv(cos(Mul(shaped, FALLOFF_PI)), 2)

\* the loop over u_points from index i on
RECURSIVE PointLoop(_, _, _, _)
PointLoop(i, acc, currentPos, u) ==
    IF i >= MAX_POINTS \/ i >= u.u_numPoints THEN acc
    ELSE LET pt == UPoint(u, i)
             pointPos == << pt[1], pt[2] >>
             pointValue == pt[3]
         IN  IF SkipPoint(pointValue) THEN PointLoop(i + 1, acc, currentPos, u)
             ELSE LET distance == haversineDistance(currentPos, pointPos)
                  IN  IF WithinRadius(distance, u.u_influenceRadius)
                      THEN LET falloff == Falloff(distance, u)
                               influence == Mul(pointValue, falloff)
                               weight == Mul(falloff, falloff)
                           IN  PointLoop(i + 1,
                                   [totalInfluence |-> acc.totalInfluence + Mul(influence, weight),
                                    totalWeight |-> acc.totalWeight + weight,
                                    contributing |-> acc.contributing \cup {i}],
                                   currentPos, u)
                      ELSE PointLoop(i + 1, acc, currentPos, u)

Aggregate(currentPos, u) ==
    PointLoop(0, [totalInfluence |-> 0, totalWeight |-> 0, contributing |-> {}],
              currentPos, u)

\* totalWeight > 0.0 ? (totalInfluence / totalWeight) * 1.15 : 0.0
InterpolatedValue(agg) ==
    IF agg.totalWeight > 0
    THEN TDiv(TDiv(agg.totalInfluence * ONE, agg.totalWeight) * 115, 100)
    ELSE 0

TransparentColor == << 0, 0, 0, 0 >>

\* void main(): gl_FragColor and the values main computes on the way
main(screenPos, u) ==
    LET g == screenToGeo(screenPos, u)
        agg == Aggregate(g.pos, u)
        interpolatedValue == InterpolatedValue(agg)
        color == getColor(interpolatedValue, u)
        none == [totalInfluence |-> 0, totalWeight |-> 0, contributing |-> {}]
    IN  IF OutsideMainWorld(g.worldWrap)
        THEN [worldWrap |-> g.worldWrap, currentPos |-> g.pos, returned |-> "wrap",
              agg |-> none, interpolatedValue |-> 0, gl_FragColor |-> TransparentColor]
        ELSE IF Transparent(interpolatedValue)
        THEN [worldWrap |-> g.worldWrap, currentPos |-> g.pos, returned |-> "transparent",
              agg |-> agg, interpolatedValue |-> interpolatedValue,
              gl_FragColor |-> TransparentColor]
        ELSE [worldWrap |-> g.worldWrap, currentPos |-> g.pos, returned |-> "color",
              agg |-> agg, interpolatedValue |-> interpolatedValue,
              gl_FragColor |-> << (color[1] * ONE) \div 255, (color[2] * ONE) \div 255,
                                  (color[3] * ONE) \div 255, ALPHA >>]

---------------------------------------------------------------------------
(* The fragment shader run on the uniforms of a render: SpecFrag.          *)

\* all sequences over S of length at most n
SeqsUpTo(S, n) == UNION { [1..k -> S] : k \in 0..n }

FragPoints ==
    { SamplePoint(0, 0, ONE), SamplePoint(1000, 0, 1300),
      SamplePoint(0, 0, 0), SamplePoint(-18000, 0, 5000) }

FragPointLists == SeqsUpTo(FragPoints, MaxFragPoints)

FragConfigs ==
    { <<>>,
      [influenceRadius |-> 1000, falloffSteepness |-> 10],
      [influenceRadius |-> 3000, falloffSteepness |-> 20] }

\* a gradient table with another second threshold
ShiftedGradient == [DefaultGradient EXCEPT ![2].stop = 1000]

GradientTables == { DefaultGradient, ShiftedGradient }

FragCameras ==
    { Camera(0, 0, 0, 1024, 512),
      Camera(-17000, 0, 0, 1024, 512),
      Camera(1000, 6000, 2, 1024, 512) }

\* v_screenPos, in 1/ONE
ScreenPositions == { -ONE, -(ONE \div 2), 0, ONE \div 2, ONE } \X { -(ONE \div 2), 0, ONE \div 2 }

\* an added layer that has rendered one frame of pts under cfg, cam and table
FragInit ==
    /\ \E pts \in FragPointLists, cfg \in FragConfigs, cam \in FragCameras,
          table \in GradientTables :
        LET prep == PrepareUniformData(pts, Undefined, Undefined, Undefined, table)
        IN  /\ points = pts
            /\ config = Spread(DEFAULT_CONFIG, cfg)
            /\ COLOR_GRADIENT = table
            /\ pointsArray = prep.pointsArray
            /\ gradientColors = prep.gradientColors
            /\ gradientStops = prep.gradientStops
            /\ map = TRUE
            /\ lastCall = RenderCall(TRUE, cam, Spread(DEFAULT_CONFIG, cfg), pts,
                                     prep.pointsArray, prep.gradientColors,
                                     prep.gradientStops)
            /\ committed = Committed(pts, "constructor")
    /\ program = 3
    /\ locations = 3
    /\ positionBuffer = 4
    /\ gl = [nextId |-> 4, shaders |-> {}, programs |-> {3}, buffers |-> {4}]
    /\ addStatus = "ok"
    /\ frag = NoFrag
    /\ geo = NoGeo

\* one invocation of the fragment shader of the frame drawn last; invocations
\* share no state, so a behaviour follows one of them
fragment(screenPos) ==
    /\ ~frag.done
    /\ lastCall.op = "render"
    /\ lastCall.drew
    /\ frag' = [done |-> TRUE, screenPos |-> screenPos,
                out |-> main(screenPos, lastCall.uploads)]
    /\ UNCHANGED <<points, config, program, positionBuffer, locations, map,
                   pointsArray, gradientColors, gradientStops, COLOR_GRADIENT,
                   gl, lastCall, addStatus, geo, committed>>

FragNext == \E screenPos \in ScreenPositions : fragment(screenPos)

SpecFrag == FragInit /\ [][FragNext]_vars

---------------------------------------------------------------------------
(* The geographic helpers of the shader on their own: SpecGeo.             *)

\* longitudes and latitudes in 1/100 degree
Longitudes == { -18000, -17000, -9000, -1, 0, 1, 9000, 17000, 18000 }
GeoPoints == { -18000, -17000, 0, 17000, 18000 } \X { -6000, 0, 6000 }

GeoInit ==
    /\ Constructor(<< SamplePoint(1000, 6000, 9000) >>, <<>>)
    /\ COLOR_GRADIENT = DefaultGradient
    /\ gl = [nextId |-> 0, shaders |-> {}, programs |-> {}, buffers |-> {}]
    /\ lastCall = Call("constructor", NoArg, FALSE)
    /\ addStatus = "none"
    /\ frag = NoFrag
    /\ geo = NoGeo

lngDifferenceCall(lng1, lng2) ==
    /\ ~geo.done
    /\ geo' = [done |-> TRUE, fn |-> "lngDifference", args |-> <<lng1, lng2>>,
               result |-> lngDifference(lng1, lng2)]
    /\ UNCHANGED <<points, config, program, positionBuffer, locations, map,
                   pointsArray, gradientColors, gradientStops, COLOR_GRADIENT,
                   gl, lastCall, addStatus, frag, committed>>

haversineDistanceCall(point1, point2) ==
    /\ ~geo.done
    /\ geo' = [done |-> TRUE, fn |-> "haversineDistance", args |-> <<point1, point2>>,
               result |-> haversineDistance(point1, point2)]
    /\ UNCHANGED <<points, config, program, positionBuffer, locations, map,
                   pointsArray, gradientColors, gradientStops, COLOR_GRADIENT,
                   gl, lastCall, addStatus, frag, committed>>

GeoNext ==
    \/ \E lng1, lng2 \in Longitudes : lngDifferenceCall(lng1, lng2)
    \/ \E point1, point2 \in GeoPoints : haversineDistanceCall(point1, point2)

SpecGeo == GeoInit /\ [][GeoNext]_vars

---------------------------------------------------------------------------
(* Claims about the layer, checked under Spec.                             *)

\* the point count the next render would upload
NextRenderCount == NumPointsUploaded(points, pointsArray)

\* C1: an updatePoints call with more than 250 points raises an error and leaves
\* this.points, the cached pointsArray and the point count of the next render
\* as they were before the call.
C1_RejectedUpdateKeepsPoints ==
    [][ (lastCall'.op = "updatePoints" /\ lastCall'.arg > MAX_POINTS)
            => /\ lastCall'.threw
               /\ points' = points
               /\ pointsArray' = pointsArray
               /\ NextRenderCount' = NextRenderCount ]_vars

\* C2: every render that uploads a point count uploads one of at most 250, equal
\* to the number of points in the uploaded points array.
C2_UploadedCountMatchesArray ==
    (lastCall.op = "render" /\ "u_numPoints" \in DOMAIN lastCall.uploads)
        => /\ lastCall.uploads.u_numPoints <= MAX_POINTS
           /\ 3 * lastCall.uploads.u_numPoints = Len(lastCall.uploads.u_points)

\* C3: updateConfig(newConfig) gives every field named in newConfig the new value,
\* keeps every other field, and leaves the points and the cached arrays alone.
C3_UpdateConfigMerges ==
    [][ lastCall'.op = "updateConfig"
            => /\ \A f \in DOMAIN lastCall'.arg : config'[f] = lastCall'.arg[f]
               /\ \A f \in ConfigFields \ DOMAIN lastCall'.arg : config'[f] = config[f]
               /\ DOMAIN config' = ConfigFields
               /\ points' = points
               /\ pointsArray' = pointsArray
               /\ gradientColors' = gradientColors
               /\ gradientStops' = gradientStops ]_vars

\* an updateConfig that named some fields and kept a non-default value in another
C3_Witness ==
    /\ lastCall.op = "updateConfig"
    /\ DOMAIN lastCall.arg # {}
    /\ \E f \in ConfigFields \ DOMAIN lastCall.arg : config[f] # DEFAULT_CONFIG[f]
    /\ \E f \in DOMAIN lastCall.arg : config[f] # DEFAULT_CONFIG[f]

\* resources left partially initialized by a failed onAdd
PartiallyInitialized ==
    \/ program = Null
    \/ positionBuffer = Null
    \/ ~pointsArray.def
    \/ ~gradientColors.def
    \/ ~gradientStops.def

\* C4: onAdd raises an error when a shader fails to compile or the program fails
\* to link, and a render after a failed onAdd that left a null program, a missing
\* position buffer or missing cached arrays issues no draw call.
C4_NoDrawAfterFailedAdd ==
    /\ (lastCall.op = "onAdd" /\ (FALSE \in {lastCall.compiled[i] : i \in DOMAIN lastCall.compiled}
                                  \/ lastCall.linked = <<FALSE>>))
            => lastCall.threw
    /\ (lastCall.op = "render" /\ addStatus = "failed" /\ PartiallyInitialized)
            => ~lastCall.drew

\* a render of a layer whose onAdd succeeded and whose point list was not
\* rejected since it was last accepted
RenderOfCommitted ==
    /\ lastCall.op = "render"
    /\ addStatus = "ok"
    /\ ~committed.rejected

\* C12: on a layer that has been added, after successful updatePoints and
\* updateConfig calls, a render uploads influenceRadius and falloffSteepness of the
\* current config, and the points array and point count of the list given to the
\* most recent successful updatePoints, or to the constructor if there was none.
C12_RenderReadsLatest ==
    RenderOfCommitted =>
        /\ ~lastCall.threw
        /\ lastCall.uploads.u_influenceRadius = config.influenceRadius
        /\ lastCall.uploads.u_falloffSteepness = config.falloffSteepness
        /\ lastCall.uploads.u_points = PointsArrayOf(committed.points)
        /\ lastCall.uploads.u_numPoints = Len(committed.points)

\* a render after an updatePoints replaced the list and updateConfig calls changed
\* both uploaded fields of the config
C12_Witness ==
    /\ RenderOfCommitted
    /\ lastCall.drew
    /\ committed.by = "updatePoints"
    /\ Len(committed.points) = MAX_POINTS
    /\ config.influenceRadius # DEFAULT_CONFIG.influenceRadius
    /\ config.falloffSteepness # DEFAULT_CONFIG.falloffSteepness

\* C13: every shader object that onAdd creates is deleted by the time onAdd returns
\* or raises (on success, on a compile failure of either shader and on a link
\* failure), and a program that failed to link is deleted.
C13_NoShaderLeftByOnAdd ==
    lastCall.op = "onAdd" =>
        /\ lastCall.createdShaders \cap gl.shaders = {}
        /\ (lastCall.linked = << FALSE >>) => (lastCall.createdPrograms \cap gl.programs = {})

---------------------------------------------------------------------------
(* Claims about the fragment shader, checked under SpecFrag.               *)

FragUniforms == lastCall.uploads
FragAlpha == frag.out.gl_FragColor[4]
\* the uniforms with the point list pts uploaded instead
WithPoints(u, pts) == [u EXCEPT !.u_points = PointsArrayOf(pts), !.u_numPoints = Len(pts)]
\* rawValue of the influence computation at a location
RawValueAt(pos, u) == InterpolatedValue(Aggregate(pos, u))
NonZeroPoint(p) == p.value # 0
PointIndices == 0..(FragUniforms.u_numPoints - 1)
DistanceTo(i) ==
    haversineDistance(frag.out.currentPos,
                      << UPoint(FragUniforms, i)[1], UPoint(FragUniforms, i)[2] >>)

\* C5: a pixel whose world-wrap index is not 0 gets alpha 0, whatever the points
\* and the config are.
C5_WrappedPixelTransparent ==
    (frag.done /\ frag.out.worldWrap # 0) => FragAlpha = 0

\* a wrapped pixel at a location where the influence computation gives a value
C5_Witness ==
    /\ frag.done
    /\ frag.out.worldWrap # 0
    /\ RawValueAt(frag.out.currentPos, FragUniforms) > 0

\* C6: only points with a value > 0 add to totalInfluence and totalWeight, and
\* removing the points of value 0, or adding one, leaves rawValue unchanged.
C6_ZeroPointsContributeNothing ==
    (frag.done /\ frag.out.returned # "wrap") =>
        /\ \A i \in frag.out.agg.contributing : UPoint(FragUniforms, i)[3] > 0
        /\ frag.out.interpolatedValue =
               RawValueAt(frag.out.currentPos,
                          WithPoints(FragUniforms, SelectSeq(points, NonZeroPoint)))
        /\ \A p \in FragPoints :
               frag.out.interpolatedValue =
                   RawValueAt(frag.out.currentPos,
                              WithPoints(FragUniforms,
                                         Append(points, SamplePoint(p.lng, p.lat, 0))))

\* a visible pixel with a point of value 0 inside the influence radius
C6_Witness ==
    /\ frag.done
    /\ frag.out.returned = "color"
    /\ \E i \in PointIndices :
           /\ UPoint(FragUniforms, i)[3] = 0
           /\ DistanceTo(i) < FragUniforms.u_influenceRadius

C8_OutsideRadiusContributesNothing ==
    (frag.done /\ frag.out.returned # "wrap") =>
        /\ \A i \in frag.out.agg.contributing :
               DistanceTo(i) < FragUniforms.u_influenceRadius
        /\ (\A i \in PointIndices :
                UPoint(FragUniforms, i)[3] # 0
                    => DistanceTo(i) >= FragUniforms.u_influenceRadius)
               => /\ frag.out.agg.totalWeight = 0
                  /\ frag.out.interpolatedValue = 0
                  /\ frag.out.gl_FragColor = TransparentColor

\* a pixel with a non-zero point outside the radius but inside the diameter,
\* and none inside the radius
C8_Witness ==
    /\ frag.done
    /\ frag.out.returned = "transparent"
    /\ \E i \in PointIndices :
           /\ UPoint(FragUniforms, i)[3] # 0
           /\ DistanceTo(i) >= FragUniforms.u_influenceRadius
           /\ DistanceTo(i) < 2 * FragUniforms.u_influenceRadius

\* the index (from 0) of the last stop of the uploaded table whose threshold is <= v
LastStopAtMost(v, u) ==
    LET S == { i \in 1..Len(u.u_gradientStops) : u.u_gradientStops[i] <= v }
    IN  (CHOOSE i \in S : \A j \in S : j <= i) - 1

\* colorFor of the specification, on the uploaded gradient table
ColorFor(value, u) == GradientColor(u, LastStopAtMost(clamp(value, 0, ONE), u))

\* C9: a visible pixel gets the colour of the last stop of the uploaded gradient
\* table whose threshold is <= the value clamped to [0,1].
C9_ColorFromUploadedTable ==
    (frag.done /\ frag.out.returned = "color") =>
        LET c == ColorFor(frag.out.interpolatedValue, FragUniforms)
        IN  /\ frag.out.gl_FragColor[1] = (c[1] * ONE) \div 255
            /\ frag.out.gl_FragColor[2] = (c[2] * ONE) \div 255
            /\ frag.out.gl_FragColor[3] = (c[3] * ONE) \div 255

---------------------------------------------------------------------------
(* Claims about the geographic helpers, checked under SpecGeo.             *)

LngDifferenceDone == geo.done /\ geo.fn = "lngDifference"

\* C10 as stated: for longitudes in [-180,180] lngDifference is the signed shortest
\* difference and lies in (-180,180], so it is never -180.
C10_HalfOpenRange ==
    LngDifferenceDone =>
        /\ (geo.result - (geo.args[2] - geo.args[1])) % 36000 = 0
        /\ geo.result > -18000
        /\ geo.result <= 18000

\* C10 as amended: for longitudes in [-180,180] lngDifference is the signed shortest
\* difference from lng1 to lng2 and lies in the closed range [-180,180]; it is
\* -180 exactly when lng2 - lng1 is -180.
C10_ClosedRange ==
    LngDifferenceDone =>
        /\ (geo.result - (geo.args[2] - geo.args[1])) % 36000 = 0
        /\ geo.result >= -18000
        /\ geo.result <= 18000
        /\ (geo.result = -18000) <=> (geo.args[2] - geo.args[1] = -18000)

\* a call that returned exactly -180 degrees
C10_Witness ==
    /\ LngDifferenceDone
    /\ geo.result = -18000

HaversineDone == geo.done /\ geo.fn = "haversineDistance"
\* the longitude term of haversineDistance(p, q)
LngTerm(p, q) == lngDifference(p[1], q[1])
\* the smaller of the two arcs between two longitudes
ShortArc(lng1, lng2) == Min(Abs(lng2 - lng1), 36000 - Abs(lng2 - lng1))

\* C11: haversineDistance(P,Q) = haversineDistance(Q,P) and haversineDistance(P,P) = 0;
\* its longitude term lngDiff has the same magnitude in both argument orders, at
\* most 180 degrees, so two points on opposite sides of the antimeridian are
\* measured along the shorter arc.
C11_SymmetricShortWay ==
    HaversineDone =>
        LET P == geo.args[1]
            Q == geo.args[2]
        IN  /\ geo.result = haversineDistance(Q, P)
            /\ (P = Q) => geo.result = 0
            /\ Abs(LngTerm(P, Q)) = Abs(LngTerm(Q, P))
            /\ Abs(LngTerm(P, Q)) <= 18000
            /\ Abs(LngTerm(P, Q)) = ShortArc(P[1], Q[1])
            /\ geo.result = haversineDistance(<< 0, P[2] >>, << ShortArc(P[1], Q[1]), Q[2] >>)

\* two points at different latitudes on opposite sides of the antimeridian
C11_Witness ==
    /\ HaversineDone
    /\ Abs(geo.args[2][1] - geo.args[1][1]) > 18000
    /\ geo.args[1][2] # geo.args[2][2]
    /\ geo.result > 0
    /\ geo.result < haversineDistance(<< 0, 0 >>, << 9000, 0 >>)

====
